---- MODULE Spec2Model ----
(***************************************************************************)
(* Model of the merge-decision engine of src/route_merger.py:              *)
(* verify_and_correct_order, try_merge_route and merge_routes, with the    *)
(* MergeLogger they write to.                                              *)
(*                                                                         *)
(* Distances are counted in quarter kilometres (the source's 0.5 km margin *)
(* is 2 units, its 3.0 km detour threshold 12 units); demands are whole    *)
(* passenger counts, as main.py builds them with groupby(...).size().      *)
(***************************************************************************)
EXTENDS Integers, Sequences, FiniteSets, TLC

(***************************************************************************)
(* Program constants (src/route_merger.py lines 7-11).                     *)
(***************************************************************************)
MAX_CAPACITY == 60
DISTANCE_THRESHOLD == 12
DEMAND_IGNORE_THRESHOLD == 2
MAX_IGNORED_DEMAND == 5
MIN_CLOSER_THRESHOLD == 2

(***************************************************************************)
(* Bounds of the explored inputs.                                          *)
(***************************************************************************)
\* Every route of an input is one of the first MaxChoice entries of RoutePool.
MaxChoice == 12

\* Route identifiers in the insertion order of the `routes` mapping.
RouteIds == <<"A", "B", "C">>
\* Stop identifiers and the hub (college_stop).
Stops == {"p", "q", "r", "s"}
college_stop == "H"
Points == Stops \cup {college_stop}
\* Python's None where a route id is expected.
NoRoute == "None"

(***************************************************************************)
(* Python helpers.                                                         *)
(***************************************************************************)
EmptyDict == [k \in {} |-> 0]

\* dict.get(k, 0)
Get(d, k) == IF k \in DOMAIN d THEN d[k] ELSE 0

RECURSIVE SumOver(_, _)
SumOver(d, S) ==
    IF S = {} THEN 0
    ELSE LET k == CHOOSE x \in S : TRUE IN d[k] + SumOver(d, S \ {k})

\* sum(d.values())
SumValues(d) == SumOver(d, DOMAIN d)

\* x in list
Contains(seq, x) == \E i \in 1..Len(seq) : seq[i] = x

\* list.insert(pos, x) with a 0-based pos in 0..len(list)
ListInsert(seq, pos, x) ==
    SubSeq(seq, 1, pos) \o <<x>> \o SubSeq(seq, pos + 1, Len(seq))

\* del d[k]
DictDel(d, k) == [x \in (DOMAIN d) \ {k} |-> d[x]]

\* Iteration order of a mapping keyed by route ids: the insertion order of the
\* input mapping, which deletions preserve.
KeyOrder(d) == SelectSeq(RouteIds, LAMBDA r : r \in DOMAIN d)

(***************************************************************************)
(* MergeLogger (lines 13-63), without the timestamps.                      *)
(***************************************************************************)
NewLogger ==
    [initial_routes |-> EmptyDict, removed_routes |-> <<>>,
     merge_operations |-> <<>>, final_routes |-> EmptyDict]

log_initial_state(lg, rts, rsd) ==
    [lg EXCEPT !.initial_routes =
        [r \in DOMAIN rts |->
            [stops |-> rts[r], total_demand |-> SumValues(rsd[r]),
             stop_demands |-> rsd[r]]]]

log_route_removal(lg, route_id, stops_assigned) ==
    [lg EXCEPT !.removed_routes =
        Append(@, [route_id |-> route_id, stops_assigned |-> stops_assigned])]

log_merge_operation(lg, from_route, to_route, stop, demand, insert_pos) ==
    [lg EXCEPT !.merge_operations =
        Append(@, [from_route |-> from_route, to_route |-> to_route,
                   stop |-> stop, demand |-> demand,
                   insert_position |-> insert_pos])]

log_final_state(lg, rts, rd) ==
    [lg EXCEPT !.final_routes =
        [r \in DOMAIN rts |-> [stops |-> rts[r], total_demand |-> rd[r]]]]

(***************************************************************************)
(* verify_and_correct_order (lines 84-98).                                 *)
(***************************************************************************)
verify_and_correct_order(route_id, stops, orders) ==
    IF route_id \notin DOMAIN orders
    THEN stops
    ELSE SelectSeq(orders[route_id], LAMBDA st : Contains(stops, st))

(***************************************************************************)
(* try_merge_route (lines 100-207).                                        *)
(***************************************************************************)
\* A faulty skip test that forgets the threshold and skips only stops without
\* demand.
Ignorable_OnlyEmpty(stop_route_demand, stop, faculty) ==
    stop_route_demand <= 0 /\ stop \notin faculty

\* line 118: a low-demand stop that is not a faculty stop is skipped
Ignorable(stop_route_demand, stop, faculty) ==
    stop_route_demand <= DEMAND_IGNORE_THRESHOLD /\ stop \notin faculty

\* A faulty capacity test that leaves the stop's own demand out.
CapacityAllows_WithoutStop(route_total, stop_route_demand) ==
    ~(route_total > MAX_CAPACITY)

\* line 131 (negated): the surviving route can take the stop's demand
CapacityAllows(route_total, stop_route_demand) ==
    ~(route_total + stop_route_demand > MAX_CAPACITY)

\* A faulty closeness test that forgets the margin.
CloserThan_NoMargin(stop_to_college_dist, current_to_college_dist) ==
    ~(stop_to_college_dist >= current_to_college_dist)

\* line 141 (negated): the stop is closer to the hub than current_stop by
\* more than the margin
CloserThan(stop_to_college_dist, current_to_college_dist) ==
    ~(stop_to_college_dist + MIN_CLOSER_THRESHOLD >= current_to_college_dist)

\* A faulty interpolation test that leaves next_stop out.
Between_WithoutNext(current_to_college_dist, stop_to_college_dist, next_to_college_dist) ==
    current_to_college_dist >= stop_to_college_dist

\* line 150: the stop's hub distance lies between current's and next's
Between(current_to_college_dist, stop_to_college_dist, next_to_college_dist) ==
    current_to_college_dist >= stop_to_college_dist
        /\ stop_to_college_dist >= next_to_college_dist

\* line 158: the position replaces the best one found so far; best_increase
\* starts at float('inf'), which a best without a route stands for
Improves(increase, best) ==
    increase < DISTANCE_THRESHOLD
        /\ (best.route_id = NoRoute \/ increase < best.increase)

NoBest == [increase |-> 0, route_id |-> NoRoute, insert_pos |-> 0, raised |-> FALSE]

\* distance_matrix[a][b] finds an entry
Has(dm, a, b) == a \in DOMAIN dm /\ b \in DOMAIN dm[a]

\* A faulty lookup that swallows the KeyError and goes on as if the route had
\* no place for the stop.
OnMissing_Skip(best) == best

\* distance_matrix[a][b] without an entry raises KeyError, which nothing
\* catches: the search for a place ends there
OnMissing(best) == [best EXCEPT !.raised = TRUE]

\* lines 137-161: the positions of one surviving route, left to right; i is the
\* 1-based index of current_stop, which is also Python's insert position i + 1.
\* The lookups are made in the order of lines 139, 148, 153-155, each only when
\* the tests before it let the position through.
RECURSIVE ScanPositions(_, _, _, _, _, _)
ScanPositions(best, alive_route_id, alive_stops, i, stop, dm) ==
    IF best.raised \/ i > Len(alive_stops) THEN best
    ELSE
      LET current_stop == alive_stops[i]
          stop_to_college_dist == dm[stop][college_stop]
          current_to_college_dist == dm[current_stop][college_stop]
          is_last == (i = Len(alive_stops))
          next_stop == IF is_last THEN college_stop ELSE alive_stops[i + 1]
          increase == dm[current_stop][stop] + dm[stop][next_stop]
                         - dm[current_stop][next_stop]
          found == [increase |-> increase, route_id |-> alive_route_id,
                    insert_pos |-> i, raised |-> FALSE]
      IN IF ~Has(dm, current_stop, college_stop) THEN OnMissing(best)
         ELSE IF ~CloserThan(stop_to_college_dist, current_to_college_dist)
         THEN ScanPositions(best, alive_route_id, alive_stops, i + 1, stop, dm)
         ELSE IF ~is_last /\ ~Has(dm, next_stop, college_stop) THEN OnMissing(best)
         ELSE IF ~is_last /\ ~Between(current_to_college_dist, stop_to_college_dist,
                                      dm[next_stop][college_stop])
         THEN ScanPositions(best, alive_route_id, alive_stops, i + 1, stop, dm)
         ELSE IF ~(Has(dm, current_stop, next_stop) /\ Has(dm, current_stop, stop)
                      /\ Has(dm, stop, next_stop))
         THEN OnMissing(best)
         ELSE ScanPositions(IF Improves(increase, best) THEN found ELSE best,
                            alive_route_id, alive_stops, i + 1, stop, dm)

\* lines 127-161: the surviving routes in mapping order
RECURSIVE ScanRoutes(_, _, _, _, _, _, _, _)
ScanRoutes(best, order, n, remove_route_id, temp_routes, temp_route_demands, stop_and_demand, dm) ==
    IF best.raised \/ n > Len(order) THEN best
    ELSE
      LET alive_route_id == order[n]
          eligible ==
              /\ alive_route_id # remove_route_id
              /\ CapacityAllows(temp_route_demands[alive_route_id], stop_and_demand[2])
      IN ScanRoutes(IF eligible
                    THEN ScanPositions(best, alive_route_id, temp_routes[alive_route_id],
                                       1, stop_and_demand[1], dm)
                    ELSE best,
                    order, n + 1, remove_route_id, temp_routes, temp_route_demands,
                    stop_and_demand, dm)

\* A faulty insertion that leaves the receiving route's total as it was.
ApplyInsertion_TotalForgotten(t, remove_route_id, stop, stop_route_demand, best) ==
    [t EXCEPT
        !.routes[best.route_id] = ListInsert(@, best.insert_pos, stop),
        !.route_stop_demands[best.route_id] =
            [k \in (DOMAIN @) \cup {stop} |-> Get(@, k) + (IF k = stop THEN stop_route_demand ELSE 0)],
        !.logger = log_merge_operation(@, remove_route_id, best.route_id, stop,
                                       stop_route_demand, best.insert_pos),
        !.stops_assigned = Append(@, [stop |-> stop, to_route |-> best.route_id,
                                      demand |-> stop_route_demand,
                                      position |-> best.insert_pos])]

\* lines 163-184: the insertion of one stop at the best position found
ApplyInsertion(t, remove_route_id, stop, stop_route_demand, best) ==
    [t EXCEPT
        !.routes[best.route_id] = ListInsert(@, best.insert_pos, stop),
        !.route_stop_demands[best.route_id] =
            [k \in (DOMAIN @) \cup {stop} |-> Get(@, k) + (IF k = stop THEN stop_route_demand ELSE 0)],
        !.route_demands[best.route_id] = @ + stop_route_demand,
        !.logger = log_merge_operation(@, remove_route_id, best.route_id, stop,
                                       stop_route_demand, best.insert_pos),
        !.stops_assigned = Append(@, [stop |-> stop, to_route |-> best.route_id,
                                      demand |-> stop_route_demand,
                                      position |-> best.insert_pos])]

\* lines 114-187: the loop over the candidate route's stops; j is the 1-based
\* index of the stop, t the temporary state of the attempt; line 125 reads the
\* stop's hub distance before any route is looked at
RECURSIVE PlaceStops(_, _, _, _, _, _, _)
PlaceStops(t, j, remove_route_id, candidate_route, candidate_demands, dm, faculty) ==
    IF j > Len(candidate_route) THEN t
    ELSE
      LET stop == candidate_route[j]
          stop_route_demand == Get(candidate_demands, stop)
      IN IF Ignorable(stop_route_demand, stop, faculty)
         THEN PlaceStops([t EXCEPT !.ignored_demand_sum = @ + stop_route_demand],
                         j + 1, remove_route_id, candidate_route, candidate_demands,
                         dm, faculty)
         ELSE
           LET best == CHOOSE b \in
                           { IF ~Has(dm, stop, college_stop)
                             THEN OnMissing(NoBest)
                             ELSE ScanRoutes(NoBest, KeyOrder(t.routes), 1,
                                             remove_route_id, t.routes, t.route_demands,
                                             <<stop, stop_route_demand>>, dm) } : TRUE
           IN IF best.raised
              THEN [t EXCEPT !.raised = TRUE]
              ELSE IF best.route_id # NoRoute
              THEN PlaceStops(ApplyInsertion(t, remove_route_id, stop,
                                             stop_route_demand, best),
                              j + 1, remove_route_id, candidate_route,
                              candidate_demands, dm, faculty)
              ELSE [t EXCEPT !.all_stops_assigned = FALSE]

\* A faulty budget test that never fails an attempt.
OverBudget_Never(ignored_demand_sum) == FALSE

\* line 189: the skipped demand exceeds the budget
OverBudget(ignored_demand_sum) == ignored_demand_sum > MAX_IGNORED_DEMAND

\* lines 106-109: the attempt works on deep copies of the caller's state
TempCopies(alive_routes, alive_demands, alive_stop_demands, lg) ==
    [routes |-> alive_routes, route_demands |-> alive_demands,
     route_stop_demands |-> alive_stop_demands, logger |-> lg,
     stops_assigned |-> <<>>, ignored_demand_sum |-> 0,
     all_stops_assigned |-> TRUE, raised |-> FALSE]

\* A faulty attempt that works on the caller's objects instead of copies.
CallerState_NoCopy(alive_routes, alive_demands, alive_stop_demands, t) ==
    [routes |-> t.routes, route_demands |-> t.route_demands,
     route_stop_demands |-> t.route_stop_demands]

\* lines 106-109: the caller's three objects after an attempt whose temporary
\* state is t; the attempt wrote to deep copies, so they are as they were passed
CallerState(alive_routes, alive_demands, alive_stop_demands, t) ==
    [routes |-> alive_routes, route_demands |-> alive_demands,
     route_stop_demands |-> alive_stop_demands]

\* lines 197-202: every remaining route with a canonical order is re-derived
CorrectOrders(temp_routes, orders) ==
    [r \in DOMAIN temp_routes |->
        IF r \in DOMAIN orders
        THEN verify_and_correct_order(r, temp_routes[r], orders)
        ELSE temp_routes[r]]

\* The whole call.  success, routes, route_demands and route_stop_demands are
\* the returned tuple (None is the empty mapping).  caller is the caller's three
\* objects after the call, logger the caller's logger object after the call,
\* which the attempt writes to in place.  ignored is ignored_demand_sum at the
\* return, before_correction the routes handed to the order corrector,
\* all_placed whether the loop over the stops ended without a break,
\* stops_assigned the local list of that name, and raised whether the call
\* ended in a KeyError instead of a return.
try_merge_route(remove_route_id, alive_routes, alive_demands, alive_stop_demands, dm, faculty, orders, lg) ==
    LET t == CHOOSE x \in
                { PlaceStops(TempCopies(alive_routes, alive_demands,
                                        alive_stop_demands, lg),
                             1, remove_route_id, alive_routes[remove_route_id],
                             alive_stop_demands[remove_route_id], dm, faculty) } : TRUE
        ok == ~t.raised /\ t.all_stops_assigned /\ ~OverBudget(t.ignored_demand_sum)
    IN IF ok
       THEN [success |-> TRUE,
             routes |-> CorrectOrders(DictDel(t.routes, remove_route_id), orders),
             route_demands |-> DictDel(t.route_demands, remove_route_id),
             route_stop_demands |-> DictDel(t.route_stop_demands, remove_route_id),
             caller |-> CallerState(alive_routes, alive_demands, alive_stop_demands, t),
             logger |-> log_route_removal(t.logger, remove_route_id, t.stops_assigned),
             ignored |-> t.ignored_demand_sum,
             before_correction |-> DictDel(t.routes, remove_route_id),
             all_placed |-> t.all_stops_assigned, stops_assigned |-> t.stops_assigned,
             raised |-> t.raised]
       ELSE [success |-> FALSE, routes |-> EmptyDict, route_demands |-> EmptyDict,
             route_stop_demands |-> EmptyDict,
             caller |-> CallerState(alive_routes, alive_demands, alive_stop_demands, t),
             logger |-> t.logger, ignored |-> t.ignored_demand_sum,
             before_correction |-> EmptyDict,
             all_placed |-> t.all_stops_assigned, stops_assigned |-> t.stops_assigned,
             raised |-> t.raised]

(***************************************************************************)
(* itertools.combinations over the route ids (lines 265-269).              *)
(***************************************************************************)
RECURSIVE Prepend(_, _, _)
Prepend(x, seqs, n) ==
    IF n > Len(seqs) THEN <<>>
    ELSE <<(<<x>> \o seqs[n])>> \o Prepend(x, seqs, n + 1)

\* combinations(ids, k): the k-element subsequences of ids, lexicographic by
\* position
RECURSIVE combinations(_, _)
combinations(ids, k) ==
    IF k = 0 THEN << <<>> >>
    ELSE IF Len(ids) < k THEN <<>>
    ELSE Prepend(Head(ids), combinations(Tail(ids), k - 1), 1)
            \o combinations(Tail(ids), k)

\* The trials in the order the two nested loops visit them: k ascending from
\* k to max_routes_to_try, combinations(route_ids, k) within k.
RECURSIVE TrialsFrom(_, _)
TrialsFrom(route_ids, k) ==
    IF k > Len(route_ids) THEN <<>>
    ELSE combinations(route_ids, k) \o TrialsFrom(route_ids, k + 1)

(***************************************************************************)
(* The explored inputs.                                                    *)
(***************************************************************************)
Abs(n) == IF n < 0 THEN -n ELSE n

\* Stop positions on a street grid, in quarter kilometres, the hub at (0, 0).
Layouts ==
    { [p |-> <<16, 0>>,  q |-> <<8, 0>>,  r |-> <<-4, 0>>, s |-> <<14, 0>>, H |-> <<0, 0>>],
      [p |-> <<-18, 0>>, q |-> <<-8, 4>>, r |-> <<-8, 0>>, s |-> <<2, 4>>,  H |-> <<0, 0>>] }

\* The distance matrix of a layout: street-grid distance between two points.
MatrixOf(layout) ==
    [a \in Points |-> [b \in Points |->
        Abs(layout[a][1] - layout[b][1]) + Abs(layout[a][2] - layout[b][2])]]

\* Candidate routes: a stop sequence and the demand the route serves at each
\* of its stops.  A stop nobody boards at has no entry in the route's demand
\* mapping (groupby(...).size() in main.py), which demand 0 stands for here.
RoutePool ==
    << [stops |-> <<"s">>,      demand |-> <<3>>],
       [stops |-> <<"q", "r">>, demand |-> <<3, 2>>],
       [stops |-> <<"p">>,      demand |-> <<3>>],
       [stops |-> <<"p">>,      demand |-> <<55>>],
       [stops |-> <<"r">>,      demand |-> <<2>>],
       [stops |-> <<"q">>,      demand |-> <<3>>],
       [stops |-> <<"p", "q">>, demand |-> <<2, 3>>],
       [stops |-> <<"r", "s">>, demand |-> <<3, 3>>],
       [stops |-> <<"p", "q">>, demand |-> <<55, 55>>],
       [stops |-> <<"q">>,      demand |-> <<0>>],
       [stops |-> <<"p">>,      demand |-> <<2>>],
       [stops |-> <<"s", "r">>, demand |-> <<30, 30>>],
       [stops |-> <<"q", "s">>, demand |-> <<2, 2>>],
       [stops |-> <<"s", "q">>, demand |-> <<3, 0>>] >>

\* The demand mapping of a pool entry.
LedgerOf(entry) ==
    [st \in { entry.stops[n] : n \in { m \in 1..Len(entry.stops) : entry.demand[m] # 0 } } |->
        entry.demand[CHOOSE n \in 1..Len(entry.stops) : entry.stops[n] = st]]

FacultySets == { {}, {"r"} }

RouteSet == { RouteIds[i] : i \in 1..Len(RouteIds) }

(***************************************************************************)
(* merge_routes (lines 209-319).                                           *)
(***************************************************************************)
VARIABLES
    routes,                       \* argument: route id -> stop sequence
    route_stop_demands,           \* argument (copied, line 242): route id -> stop -> demand
    distance_matrix,              \* argument
    faculty_stops,                \* argument
    original_orders,              \* load_original_route_order() (line 215)
    original_routes,              \* line 218
    original_route_stop_demands,  \* line 245
    route_demands,                \* line 248
    logger,                       \* line 219
    best_solution,                \* line 257
    pc,                           \* "trial": line 269, "member": line 276, "done": returned,
                                  \* "raised": left by a KeyError
    trial,                        \* 1-based index of the combination being tried
    routes_to_remove,             \* line 269: the combination being tried
    member,                       \* 1-based index of route_id in routes_to_remove
    current_routes,               \* line 270
    current_route_demands,        \* line 271
    current_route_stop_demands,   \* line 272
    temp_logger,                  \* line 273
    routes_removed,               \* line 274
    final_routes,                 \* lines 304, 312
    final_route_demands,          \* lines 306, 313
    final_route_stop_demands,     \* lines 305, 314
    merge_log,                    \* line 318
    current_ignored,              \* history: demand ignored by the trial's accepted removals
    best_ignored,                 \* history: current_ignored of the retained trial
    trial_results,                \* history: the outcome of every finished trial
    corrector_input,              \* history: the routes last handed to the order corrector
    last_attempt,                 \* history: the last call of try_merge_route
    current_dropped,              \* history: demand ignored by each accepted removal of the trial
    best_dropped,                 \* history: current_dropped of the retained trial
    run                           \* which call of merge_routes this is

inputs == <<routes, route_stop_demands, distance_matrix, faculty_stops, original_orders>>
locals == <<original_routes, original_route_stop_demands, route_demands, logger,
            best_solution, pc, trial, routes_to_remove, member, current_routes, current_route_demands,
            current_route_stop_demands, temp_logger, routes_removed>>
results == <<final_routes, final_route_demands, final_route_stop_demands, merge_log>>
history == <<current_ignored, best_ignored, trial_results, corrector_input,
             last_attempt, current_dropped, best_dropped, run>>
vars == <<inputs, locals, results, history>>

\* No call of try_merge_route has been made yet.
NoAttempt ==
    [route_id |-> NoRoute, routes |-> EmptyDict, route_demands |-> EmptyDict,
     route_stop_demands |-> EmptyDict, success |-> FALSE, all_placed |-> FALSE,
     ignored |-> 0, stops_assigned |-> <<>>, raised |-> FALSE]

\* route_ids (line 265) and the combinations the two loops go through
route_ids == KeyOrder(routes)
Trials == TrialsFrom(route_ids, 1)

\* Lines 215-266 for the given arguments: the state at the head of the loops.
\* best_solution has no 'logger' entry before a trial is retained; the field
\* holds the untouched logger until then and is read only after.
Enter(rts, rsd, dm, faculty, orders, n) ==
    /\ routes = rts
    /\ route_stop_demands = rsd
    /\ distance_matrix = dm
    /\ faculty_stops = faculty
    /\ original_orders = orders
    /\ original_routes = rts
    /\ original_route_stop_demands = rsd
    /\ route_demands = [r \in DOMAIN rsd |-> SumValues(rsd[r])]
    /\ logger = log_initial_state(NewLogger, rts, rsd)
    /\ best_solution =
          [routes |-> rts,
           route_demands |-> [r \in DOMAIN rsd |-> SumValues(rsd[r])],
           route_stop_demands |-> rsd,
           routes_removed |-> 0,
           logger |-> log_initial_state(NewLogger, rts, rsd)]
    /\ pc = "trial"
    /\ trial = 1
    /\ routes_to_remove = <<>>
    /\ member = 1
    /\ current_routes = rts
    /\ current_route_demands = [r \in DOMAIN rsd |-> SumValues(rsd[r])]
    /\ current_route_stop_demands = rsd
    /\ temp_logger = log_initial_state(NewLogger, rts, rsd)
    /\ routes_removed = 0
    /\ final_routes = EmptyDict
    /\ final_route_demands = EmptyDict
    /\ final_route_stop_demands = EmptyDict
    /\ merge_log = NewLogger
    /\ current_ignored = 0
    /\ best_ignored = 0
    /\ trial_results = <<>>
    /\ corrector_input = EmptyDict
    /\ last_attempt = NoAttempt
    /\ current_dropped = <<>>
    /\ best_dropped = <<>>
    /\ run = n

\* The inputs: every route takes one of the first MaxChoice pool entries; the
\* canonical orders are the input sequences when the sheet names match the
\* route ids, and there are none when they do not.
Init ==
    \E choice \in [RouteSet -> 1..MaxChoice],
       layout \in Layouts, faculty \in FacultySets, canonical \in BOOLEAN :
        LET rts == [r \in RouteSet |-> RoutePool[choice[r]].stops] IN
        Enter(rts,
              [r \in RouteSet |-> LedgerOf(RoutePool[choice[r]])],
              MatrixOf(layout), faculty,
              IF canonical THEN rts ELSE EmptyDict,
              1)

\* lines 269-274: the next combination starts from the unmodified state
BeginTrial ==
    /\ pc = "trial"
    /\ trial <= Len(Trials)
    /\ current_routes' = routes
    /\ current_route_demands' = route_demands
    /\ current_route_stop_demands' = route_stop_demands
    /\ routes_to_remove' = Trials[trial]
    /\ temp_logger' = logger
    /\ routes_removed' = 0
    /\ member' = 1
    /\ pc' = "member"
    /\ current_ignored' = 0
    /\ current_dropped' = <<>>
    /\ UNCHANGED <<inputs, original_routes, original_route_stop_demands, route_demands,
                   logger, best_solution, trial, results, best_ignored, trial_results,
                   corrector_input, last_attempt, best_dropped, run>>

\* A faulty trial whose temp_logger is the logger itself, not a copy of it.
LoggerAfterAttempt_NoCopy(lg, tmp) == tmp

\* line 273: temp_logger is a deep copy, so what an attempt writes to it
\* (tmp is temp_logger after the attempt) leaves logger as it is
LoggerAfterAttempt(lg, tmp) == lg

\* lines 276-289: one member of the combination.  A KeyError of the attempt
\* leaves merge_routes at once: nothing is returned and no log is saved.
AttemptRoute ==
    /\ pc = "member"
    /\ member <= Len(routes_to_remove)
    /\ LET route_id == routes_to_remove[member] IN
         IF route_id \notin DOMAIN current_routes
         THEN /\ member' = member + 1
              /\ UNCHANGED <<current_routes, current_route_demands,
                             current_route_stop_demands, temp_logger, logger,
                             routes_removed, current_ignored, corrector_input,
                             last_attempt, current_dropped, pc>>
         ELSE
           \E res \in { try_merge_route(route_id, current_routes, current_route_demands,
                                        current_route_stop_demands, distance_matrix,
                                        faculty_stops, original_orders, temp_logger) } :
              /\ temp_logger' = res.logger
              /\ logger' = LoggerAfterAttempt(logger, res.logger)
              /\ last_attempt' =
                    [route_id |-> route_id, routes |-> current_routes,
                     route_demands |-> current_route_demands,
                     route_stop_demands |-> current_route_stop_demands,
                     success |-> res.success, all_placed |-> res.all_placed,
                     ignored |-> res.ignored, stops_assigned |-> res.stops_assigned,
                     raised |-> res.raised]
              /\ pc' = IF res.raised THEN "raised" ELSE pc
              /\ member' = IF res.raised THEN member ELSE member + 1
              /\ IF res.success
                 THEN /\ current_routes' = res.routes
                      /\ current_route_demands' = res.route_demands
                      /\ current_route_stop_demands' = res.route_stop_demands
                      /\ routes_removed' = routes_removed + 1
                      /\ current_ignored' = current_ignored + res.ignored
                      /\ current_dropped' = Append(current_dropped, res.ignored)
                      /\ corrector_input' = res.before_correction
                 ELSE /\ current_routes' = res.caller.routes
                      /\ current_route_demands' = res.caller.route_demands
                      /\ current_route_stop_demands' = res.caller.route_stop_demands
                      /\ UNCHANGED <<routes_removed, current_ignored, corrector_input,
                                      current_dropped>>
    /\ UNCHANGED <<inputs, original_routes, original_route_stop_demands, route_demands,
                   best_solution, trial, routes_to_remove, results,
                   best_ignored, trial_results, best_dropped, run>>

\* A faulty comparison that lets a later trial with an equal count win.
Better_OrEqual(removed, best_removed) == removed >= best_removed

\* line 292: a trial replaces the best solution
Better(removed, best_removed) == removed > best_removed

\* lines 291-299: the end of a combination
EndTrial ==
    /\ pc = "member"
    /\ member > Len(routes_to_remove)
    /\ IF Better(routes_removed, best_solution.routes_removed)
       THEN /\ best_solution' =
                  [routes |-> current_routes,
                   route_demands |-> current_route_demands,
                   route_stop_demands |-> current_route_stop_demands,
                   routes_removed |-> routes_removed,
                   logger |-> temp_logger]
            /\ best_ignored' = current_ignored
            /\ best_dropped' = current_dropped
       ELSE UNCHANGED <<best_solution, best_ignored, best_dropped>>
    /\ trial_results' = Append(trial_results,
            [routes_to_remove |-> routes_to_remove, routes_removed |-> routes_removed,
             routes |-> current_routes, route_demands |-> current_route_demands,
             removed_routes |-> temp_logger.removed_routes,
             merge_operations |-> temp_logger.merge_operations])
    /\ trial' = trial + 1
    /\ pc' = "trial"
    /\ UNCHANGED <<inputs, original_routes, original_route_stop_demands, route_demands,
                   logger, routes_to_remove, member, current_routes,
                   current_route_demands, current_route_stop_demands, temp_logger,
                   routes_removed, results, current_ignored, corrector_input,
                   last_attempt, current_dropped, run>>

\* lines 301-319: the result
Finish ==
    /\ pc = "trial"
    /\ trial > Len(Trials)
    /\ IF best_solution.routes_removed = 0
       THEN /\ final_routes' = original_routes
            /\ final_route_stop_demands' = original_route_stop_demands
            /\ final_route_demands' =
                  [r \in DOMAIN original_route_stop_demands |->
                      SumValues(original_route_stop_demands[r])]
            /\ logger' = log_final_state(logger, original_routes,
                  [r \in DOMAIN original_route_stop_demands |->
                      SumValues(original_route_stop_demands[r])])
       ELSE /\ final_routes' = best_solution.routes
            /\ final_route_demands' = best_solution.route_demands
            /\ final_route_stop_demands' = best_solution.route_stop_demands
            /\ logger' = log_final_state(best_solution.logger, best_solution.routes,
                                         best_solution.route_demands)
    /\ merge_log' = logger'
    /\ pc' = "done"
    /\ UNCHANGED <<inputs, original_routes, original_route_stop_demands, route_demands,
                   best_solution, trial, routes_to_remove, member, current_routes,
                   current_route_demands, current_route_stop_demands, temp_logger,
                   routes_removed, current_ignored, best_ignored, trial_results,
                   corrector_input, last_attempt, current_dropped, best_dropped, run>>

Next == BeginTrial \/ AttemptRoute \/ EndTrial \/ Finish

Spec == Init /\ [][Next]_vars

(***************************************************************************)
(* A second call of merge_routes on the result of the first: the routes    *)
(* and the per-route demand mapping the first call ended with, the same    *)
(* distances and faculty stops, and the canonical orders rebuilt from the  *)
(* routes of the result (none where the first call had none).              *)
(***************************************************************************)
RunAgain ==
    /\ pc = "done"
    /\ run = 1
    /\ LET lg == log_initial_state(NewLogger, final_routes, final_route_stop_demands)
           totals == [r \in DOMAIN final_route_stop_demands |->
                         SumValues(final_route_stop_demands[r])]
       IN /\ routes' = final_routes
          /\ route_stop_demands' = final_route_stop_demands
          /\ original_orders' =
                IF DOMAIN original_orders = {} THEN EmptyDict ELSE final_routes
          /\ original_routes' = final_routes
          /\ original_route_stop_demands' = final_route_stop_demands
          /\ route_demands' = totals
          /\ logger' = lg
          /\ best_solution' =
                [routes |-> final_routes, route_demands |-> totals,
                 route_stop_demands |-> final_route_stop_demands,
                 routes_removed |-> 0, logger |-> lg]
          /\ current_routes' = final_routes
          /\ current_route_demands' = totals
          /\ current_route_stop_demands' = final_route_stop_demands
          /\ temp_logger' = lg
    /\ pc' = "trial"
    /\ trial' = 1
    /\ routes_to_remove' = <<>>
    /\ member' = 1
    /\ routes_removed' = 0
    /\ final_routes' = EmptyDict
    /\ final_route_demands' = EmptyDict
    /\ final_route_stop_demands' = EmptyDict
    /\ merge_log' = NewLogger
    /\ current_ignored' = 0
    /\ best_ignored' = 0
    /\ trial_results' = <<>>
    /\ corrector_input' = EmptyDict
    /\ last_attempt' = NoAttempt
    /\ current_dropped' = <<>>
    /\ best_dropped' = <<>>
    /\ run' = 2
    /\ UNCHANGED <<distance_matrix, faculty_stops>>

NextTwice == Next \/ RunAgain

SpecTwice == Init /\ [][NextTwice]_vars

(***************************************************************************)
(* Inputs of two routes, A before B in the mapping, around the example     *)
(* scenario of A = [p, q] with one passenger a stop and B = [r] with 50.   *)
(***************************************************************************)
\* The demand at a stop of route A is one of 1..MaxLowDemand.
MaxLowDemand == 3
\* The demand at a stop of route B.
HighDemands == {3, 50}
StopsOfA == { <<"p", "q">>, <<"p", "q", "s">>, <<"q", "s">>, <<"p", "s", "q", "r">> }
StopsOfB == { <<"r">>, <<"p">>, <<"p", "r">> }
\* The layouts of the three-route inputs and one where s is closer to the hub
\* than p by less than the margin.
TwoRouteLayouts ==
    Layouts \cup
    { [p |-> <<16, 0>>, q |-> <<8, 0>>, r |-> <<-4, 0>>, s |-> <<15, 0>>, H |-> <<0, 0>>] }

\* The demand mapping of a route: the demand d gives to each of its stops.
DemandsOn(stops, d) == [st \in { stops[n] : n \in 1..Len(stops) } |-> d[st]]

InitTwoRoutes ==
    \E a \in StopsOfA, b \in StopsOfB,
       da \in [Stops -> 1..MaxLowDemand], db \in [{"p", "r"} -> HighDemands],
       layout \in TwoRouteLayouts, faculty \in FacultySets, canonical \in BOOLEAN :
        LET rts == [r \in {"A", "B"} |-> IF r = "A" THEN a ELSE b] IN
        Enter(rts,
              [r \in {"A", "B"} |-> IF r = "A" THEN DemandsOn(a, da) ELSE DemandsOn(b, db)],
              MatrixOf(layout), faculty,
              IF canonical THEN rts ELSE EmptyDict,
              1)

SpecTwoRoutes == InitTwoRoutes /\ [][Next]_vars

(***************************************************************************)
(* Inputs of two routes whose distance matrix may lack an entry.           *)
(***************************************************************************)
\* The entries distance_matrix[a][b] that are absent, as pairs <<a, b>>.
MissingEntries ==
    { {}, {<<"q", college_stop>>}, {<<"r", college_stop>>}, {<<"p", "q">>},
      {<<"q", "r">>}, {<<"r", "p">>} }

\* The matrix dm without the entries of missing.
Without(dm, missing) ==
    [a \in DOMAIN dm |->
        [b \in { x \in DOMAIN dm[a] : <<a, x>> \notin missing } |-> dm[a][b]]]

InitMissingEntry ==
    \E a \in StopsOfA, b \in StopsOfB,
       da \in [Stops -> 2..MaxLowDemand], db \in [{"p", "r"} -> HighDemands],
       layout \in Layouts, faculty \in FacultySets, missing \in MissingEntries :
        LET rts == [r \in {"A", "B"} |-> IF r = "A" THEN a ELSE b] IN
        Enter(rts,
              [r \in {"A", "B"} |-> IF r = "A" THEN DemandsOn(a, da) ELSE DemandsOn(b, db)],
              Without(MatrixOf(layout), missing), faculty, EmptyDict, 1)

SpecMissingEntry == InitMissingEntry /\ [][Next]_vars

(***************************************************************************)
(* Properties.                                                             *)
(***************************************************************************)
Count(seq, x) == Cardinality({ i \in 1..Len(seq) : seq[i] = x })

\* Two stop lists hold the same stops, each as often.
SameStops(a, b) == \A st \in Stops : Count(a, st) = Count(b, st)

\* Demand summed over the per-stop entries of every route.
TotalDemand(rsd) ==
    LET totals == [r \in DOMAIN rsd |-> SumValues(rsd[r])] IN SumValues(totals)

\* Hub distances do not increase along the stop list.
NonIncreasing(stops) ==
    \A i \in 1..(Len(stops) - 1) :
        distance_matrix[stops[i]][college_stop]
            >= distance_matrix[stops[i + 1]][college_stop]

RECURSIVE MaxRemoved(_, _)
MaxRemoved(results_, n) ==
    IF n = 0 THEN 0
    ELSE LET m == MaxRemoved(results_, n - 1)
         IN IF results_[n].routes_removed > m THEN results_[n].routes_removed ELSE m

\* The insertions a ledger lists under removed_routes, as merge_operations
\* entries, in order.
RECURSIVE AssignedOps(_, _, _)
AssignedOps(from_route, assigned, n) ==
    IF n > Len(assigned) THEN <<>>
    ELSE << [from_route |-> from_route, to_route |-> assigned[n].to_route,
             stop |-> assigned[n].stop, demand |-> assigned[n].demand,
             insert_position |-> assigned[n].position] >>
            \o AssignedOps(from_route, assigned, n + 1)

RECURSIVE RemovalOps(_, _)
RemovalOps(removed, n) ==
    IF n > Len(removed) THEN <<>>
    ELSE AssignedOps(removed[n].route_id, removed[n].stops_assigned, 1)
            \o RemovalOps(removed, n + 1)

InputTotals ==
    [r \in DOMAIN original_route_stop_demands |->
        SumValues(original_route_stop_demands[r])]

\* C1: verify_and_correct_order never adds or removes stops: for every route
\* handed to the corrector after an accepted removal, the list it returns holds
\* exactly the stops of the list it was given, stops inserted from the
\* eliminated route included.
C1_CorrectorKeepsStops ==
    \A r \in DOMAIN corrector_input :
        SameStops(corrector_input[r],
                  verify_and_correct_order(r, corrector_input[r], original_orders))

\* C2: demand conservation: when merge_routes returns, the per-stop demand summed
\* over the final routes is that of the initial routes minus exactly the demand
\* of the stops skipped as ignorable by the removals of the retained trial.
C2_DemandConserved ==
    pc = "done" =>
        TotalDemand(final_route_stop_demands)
            = TotalDemand(original_route_stop_demands) - best_ignored

\* C3 as claimed: every route of the final result has a total demand of at most
\* MAX_CAPACITY, for every input, the revert case included.
C3_FinalWithinCapacity ==
    pc = "done" =>
        \A r \in DOMAIN final_routes : final_route_demands[r] <= MAX_CAPACITY

\* C3 as amended: every route of the final result has a total demand of at most
\* MAX_CAPACITY, unless its input total already exceeded MAX_CAPACITY, and then
\* the route is returned with its input stops and its input total.
C3_CapacityKept ==
    pc = "done" =>
        \A r \in DOMAIN final_routes :
            \/ final_route_demands[r] <= MAX_CAPACITY
            \/ /\ InputTotals[r] > MAX_CAPACITY
               /\ final_route_demands[r] = InputTotals[r]
               /\ final_routes[r] = original_routes[r]

\* A route of the result took stops up to exactly MAX_CAPACITY.
C3_Witness ==
    /\ pc = "done"
    /\ \E r \in DOMAIN final_routes :
          /\ final_route_demands[r] = MAX_CAPACITY
          /\ final_route_demands[r] > InputTotals[r]

\* C4 as claimed: in every route of the final result the hub distances of the
\* stops do not increase along the stop order.
C4_FinalMonotone ==
    pc = "done" => \A r \in DOMAIN final_routes : NonIncreasing(final_routes[r])

\* C4 as amended: every route of the final result whose input stop sequence had
\* non-increasing hub distances still has non-increasing hub distances.
C4_MonotoneKept ==
    pc = "done" =>
        \A r \in DOMAIN final_routes :
            NonIncreasing(original_routes[r]) => NonIncreasing(final_routes[r])

\* A route with non-increasing input took a stop between two of its stops.
C4_Witness ==
    /\ pc = "done"
    /\ \E r \in DOMAIN final_routes :
          /\ NonIncreasing(original_routes[r])
          /\ Len(final_routes[r]) > Len(original_routes[r])
          /\ final_routes[r][Len(final_routes[r])]
                = original_routes[r][Len(original_routes[r])]
          /\ Len(original_routes[r]) > 1

\* C5: revert on failure: if no trial removes a route, the returned routes and
\* the demand recorded for them equal the inputs, and the ledger holds no
\* removal and no insertion of any failed attempt.
C5_RevertRestoresInput ==
    (pc = "done" /\ best_solution.routes_removed = 0) =>
        /\ final_routes = routes
        /\ final_route_stop_demands = route_stop_demands
        /\ final_route_demands = [r \in DOMAIN routes |-> SumValues(route_stop_demands[r])]
        /\ merge_log.removed_routes = <<>>
        /\ merge_log.merge_operations = <<>>
        /\ merge_log.final_routes =
              [r \in DOMAIN routes |->
                  [stops |-> routes[r],
                   total_demand |-> SumValues(route_stop_demands[r])]]
        /\ merge_log.initial_routes =
              [r \in DOMAIN routes |->
                  [stops |-> routes[r],
                   total_demand |-> SumValues(route_stop_demands[r]),
                   stop_demands |-> route_stop_demands[r]]]

\* No route was removed although an attempt of the last trial had already
\* inserted a stop before it failed.
C5_Witness ==
    /\ pc = "done"
    /\ best_solution.routes_removed = 0
    /\ Len(temp_logger.merge_operations) > 0

\* C6: all or nothing per candidate route: a failed try_merge_route leaves the
\* caller's routes, route totals and per-stop demand as they were before the
\* attempt, so the next member starts from that state.
C6_FailedAttemptLeavesState ==
    [][(pc = "member" /\ member' = member + 1 /\ routes_removed' = routes_removed)
          => /\ current_routes' = current_routes
             /\ current_route_demands' = current_route_demands
             /\ current_route_stop_demands' = current_route_stop_demands]_vars

\* An attempt failed after it had inserted a stop: the trial has removed no
\* route, yet its logger lists an insertion.
C6_Witness ==
    /\ pc = "member"
    /\ member > 1
    /\ routes_removed = 0
    /\ Len(temp_logger.merge_operations) > 0

\* The combinations of three route ids, k ascending, lexicographic within k.
ExpectedTrials ==
    << <<"A">>, <<"B">>, <<"C">>, <<"A", "B">>, <<"A", "C">>, <<"B", "C">>,
       <<"A", "B", "C">> >>

\* C7: the search tries the combinations for k = 1..N in ascending k and in
\* lexicographic order within k, each from the unmodified initial state, and
\* returns the state of the first trial whose removal count is the maximum:
\* its routes and totals and, when it removed a route, its ledger entries.
C7_FirstBestTrialReturned ==
    /\ (pc = "member" /\ member = 1) =>
          /\ current_routes = original_routes
          /\ current_route_stop_demands = original_route_stop_demands
          /\ current_route_demands = InputTotals
    /\ (run = 1 /\ pc = "done") =>
          /\ [n \in 1..Len(trial_results) |-> trial_results[n].routes_to_remove]
                = ExpectedTrials
          /\ LET top == MaxRemoved(trial_results, Len(trial_results))
                 first == CHOOSE n \in 1..Len(trial_results) :
                             /\ trial_results[n].routes_removed = top
                             /\ \A m \in 1..(n - 1) :
                                   trial_results[m].routes_removed < top
             IN /\ final_routes = trial_results[first].routes
                /\ final_route_demands = trial_results[first].route_demands
                /\ Len(merge_log.removed_routes) = top
                /\ top > 0 =>
                      /\ merge_log.removed_routes = trial_results[first].removed_routes
                      /\ merge_log.merge_operations
                            = trial_results[first].merge_operations

\* Two trials reached the maximal removal count with different ledger entries.
C7_Witness ==
    /\ pc = "done"
    /\ \E i, j \in 1..Len(trial_results) :
          /\ i < j
          /\ trial_results[i].routes_removed = MaxRemoved(trial_results, Len(trial_results))
          /\ trial_results[j].routes_removed = trial_results[i].routes_removed
          /\ trial_results[i].routes_removed > 0
          /\ trial_results[i].merge_operations # trial_results[j].merge_operations

\* C8: faculty stops are never dropped: every faculty stop of every route the
\* final result eliminated is in the stop sequence of some route of the final
\* result.
C8_FacultyStopsKept ==
    pc = "done" =>
        \A n \in 1..Len(merge_log.removed_routes) :
            \A st \in faculty_stops :
                Contains(original_routes[merge_log.removed_routes[n].route_id], st)
                    => \E r \in DOMAIN final_routes : Contains(final_routes[r], st)

\* C9: in the returned ledger merge_operations lists exactly the insertions of
\* the accepted removals, the entries of stops_assigned under removed_routes,
\* in the same order; insertions of failed attempts are not in it.
C9_LedgerMatchesRemovals ==
    pc = "done" =>
        merge_log.merge_operations = RemovalOps(merge_log.removed_routes, 1)

\* The result lists insertions, and the last trial logged an insertion of an
\* attempt that failed.
C9_Witness ==
    /\ pc = "done"
    /\ Len(merge_log.merge_operations) > 0
    /\ Len(temp_logger.merge_operations)
          > Len(RemovalOps(temp_logger.removed_routes, 1))

\* C10: idempotence: a second run of merge_routes on the result of a first run
\* removes no further route.
C10_SecondRunRemovesNothing ==
    (run = 2 /\ pc = "done") => best_solution.routes_removed = 0

\* The input of the example scenario, distances in quarter kilometres:
\* d(p,H)=4, d(q,H)=2, d(r,H)=1, d(p,q)=2, d(p,r)=5, d(q,r)=3 km.
IsExample ==
    /\ routes = [A |-> <<"p", "q">>, B |-> <<"r">>]
    /\ route_stop_demands = [A |-> [p |-> 1, q |-> 1], B |-> [r |-> 50]]
    /\ faculty_stops = {}
    /\ distance_matrix["p"][college_stop] = 16
    /\ distance_matrix["q"][college_stop] = 8
    /\ distance_matrix["r"][college_stop] = 4
    /\ distance_matrix["p"]["q"] = 8
    /\ distance_matrix["p"]["r"] = 20
    /\ distance_matrix["q"]["r"] = 12

\* C11: example scenario: for routes A = [p, q] with demand 1 at each stop and
\* B = [r] with demand 50, merge_routes returns exactly {B: [r]} with total
\* demand 50; p and q are dropped, not inserted, and removed_routes of the
\* ledger lists only A, with an empty assignment list.
C11_ExampleResult ==
    (IsExample /\ pc = "done") =>
        /\ final_routes = [B |-> <<"r">>]
        /\ final_route_demands = [B |-> 50]
        /\ final_route_stop_demands = [B |-> [r |-> 50]]
        /\ merge_log.removed_routes = << [route_id |-> "A", stops_assigned |-> <<>>] >>
        /\ merge_log.merge_operations = <<>>

\* merge_routes has returned for the example input, two stops ignored.
C11_Witness ==
    /\ IsExample
    /\ pc = "done"
    /\ best_ignored = 2
    /\ Len(trial_results) = 3

\* The routes with a total are the routes with a stop sequence and with a
\* demand mapping, and every total is the sum of the route's demand mapping.
TotalsMatch(rts, rd, rsd) ==
    /\ DOMAIN rd = DOMAIN rts
    /\ DOMAIN rsd = DOMAIN rts
    /\ \A r \in DOMAIN rts : rd[r] = SumValues(rsd[r])

\* C12: route-total invariant: in the initial state, in the working state of
\* every trial after each of its attempts, in the retained best state and in the
\* final result, every surviving route's recorded total is the sum of its
\* per-stop demand entries, and the routes with a total are the routes with a
\* stop sequence.
C12_TotalsMatchLedger ==
    /\ TotalsMatch(routes, route_demands, route_stop_demands)
    /\ TotalsMatch(current_routes, current_route_demands, current_route_stop_demands)
    /\ TotalsMatch(best_solution.routes, best_solution.route_demands,
                   best_solution.route_stop_demands)
    /\ pc = "done" =>
          TotalsMatch(final_routes, final_route_demands, final_route_stop_demands)

\* A trial has removed a route whose stop went to a route that already had a
\* demand entry for that stop.
C12_Witness ==
    /\ pc = "member"
    /\ routes_removed > 0
    /\ \E n \in 1..Len(temp_logger.merge_operations) :
          LET op == temp_logger.merge_operations[n]
          IN /\ op.to_route \in DOMAIN current_routes
             /\ op.stop \in DOMAIN route_stop_demands[op.to_route]
             /\ current_route_demands[op.to_route] > route_demands[op.to_route]

\* C13: ignored-demand budget: an attempt succeeds only if the demand of the
\* stops it skipped is at most MAX_IGNORED_DEMAND; above the budget it fails,
\* also when every stop that had to be placed was placed; so every route the
\* final result eliminated dropped at most the budget.
C13_BudgetRespected ==
    /\ (last_attempt.route_id # NoRoute /\ ~last_attempt.raised) =>
          /\ last_attempt.success => last_attempt.ignored <= MAX_IGNORED_DEMAND
          /\ last_attempt.ignored > MAX_IGNORED_DEMAND => ~last_attempt.success
          /\ last_attempt.success <=>
                (last_attempt.all_placed /\ last_attempt.ignored <= MAX_IGNORED_DEMAND)
    /\ pc = "done" =>
          /\ Len(best_dropped) = Len(merge_log.removed_routes)
          /\ \A n \in 1..Len(best_dropped) : best_dropped[n] <= MAX_IGNORED_DEMAND

\* An attempt failed over the budget after it had placed every stop that had to
\* be placed, one stop at least.
C13_Witness ==
    /\ last_attempt.route_id # NoRoute
    /\ last_attempt.all_placed
    /\ Len(last_attempt.stops_assigned) > 0
    /\ last_attempt.ignored > MAX_IGNORED_DEMAND
    /\ ~last_attempt.success

\* Every stop of the attempt's candidate route has a demand of at most
\* DEMAND_IGNORE_THRESHOLD and is no faculty stop.
AllIgnorable(attempt) ==
    \A n \in 1..Len(attempt.routes[attempt.route_id]) :
        LET st == attempt.routes[attempt.route_id][n]
        IN /\ Get(attempt.route_stop_demands[attempt.route_id], st)
                 <= DEMAND_IGNORE_THRESHOLD
           /\ st \notin faculty_stops

\* The demand of the candidate route's stops, each stop counted once.
CandidateDemand(attempt) ==
    LET stops == attempt.routes[attempt.route_id]
        led == attempt.route_stop_demands[attempt.route_id]
        dem == [st \in { stops[n] : n \in 1..Len(stops) } |-> Get(led, st)]
    IN SumValues(dem)

\* C14: a candidate route whose stops are all ignorable is removed whenever
\* their summed demand is within MAX_IGNORED_DEMAND, whatever the capacity and
\* the geometry of the other routes, also when no other route is left; no stop
\* is inserted, and the attempt succeeds with a distance matrix without entries.
C14_AllIgnorableRemoved ==
    (last_attempt.route_id # NoRoute /\ AllIgnorable(last_attempt)
        /\ CandidateDemand(last_attempt) <= MAX_IGNORED_DEMAND) =>
        /\ last_attempt.success
        /\ last_attempt.stops_assigned = <<>>
        /\ last_attempt.ignored = CandidateDemand(last_attempt)
        /\ try_merge_route(last_attempt.route_id, last_attempt.routes,
                           last_attempt.route_demands, last_attempt.route_stop_demands,
                           EmptyDict, faculty_stops, original_orders,
                           NewLogger).success

\* The last route left was removed with all its stops ignored, some of them
\* with demand.
C14_Witness ==
    /\ last_attempt.route_id # NoRoute
    /\ DOMAIN last_attempt.routes = {last_attempt.route_id}
    /\ AllIgnorable(last_attempt)
    /\ CandidateDemand(last_attempt) > 0
    /\ last_attempt.success
    /\ DOMAIN current_routes = {}

\* The candidate route of an attempt, the demand it has at its n-th stop, and
\* whether that stop has to be placed.
Candidate(attempt) == attempt.routes[attempt.route_id]

DemandAt(attempt, n) ==
    Get(attempt.route_stop_demands[attempt.route_id], Candidate(attempt)[n])

ToPlace(attempt, n) ==
    \/ DemandAt(attempt, n) > DEMAND_IGNORE_THRESHOLD
    \/ Candidate(attempt)[n] \in faculty_stops

\* The attempt is bound to read an entry the matrix lacks.  For the first stop
\* st of the candidate that has to be placed the attempt reads, unless an
\* earlier read has failed: st's hub distance; for every other route with room
\* for st's demand and every stop cur of it, cur's hub distance; where st is
\* closer than cur by the margin, next's hub distance; and where st may go
\* between cur and next, the three distances of the detour.
MustRaise(attempt) ==
    \E n \in 1..Len(Candidate(attempt)) :
        /\ ToPlace(attempt, n)
        /\ \A m \in 1..(n - 1) : ~ToPlace(attempt, m)
        /\ LET st == Candidate(attempt)[n]
               dm == distance_matrix
           IN \/ ~Has(dm, st, college_stop)
              \/ \E r \in (DOMAIN attempt.routes) \ {attempt.route_id} :
                    /\ attempt.route_demands[r] + DemandAt(attempt, n) <= MAX_CAPACITY
                    /\ \E i \in 1..Len(attempt.routes[r]) :
                          LET cur == attempt.routes[r][i]
                              last == (i = Len(attempt.routes[r]))
                              next == IF last THEN college_stop
                                      ELSE attempt.routes[r][i + 1]
                          IN \/ ~Has(dm, cur, college_stop)
                             \/ /\ CloserThan(dm[st][college_stop], dm[cur][college_stop])
                                /\ \/ ~Has(dm, next, college_stop)
                                   \/ /\ last \/ Between(dm[cur][college_stop],
                                                         dm[st][college_stop],
                                                         dm[next][college_stop])
                                      /\ \/ ~Has(dm, cur, next)
                                         \/ ~Has(dm, cur, st)
                                         \/ ~Has(dm, st, next)

\* C15: a missing distance entry is fatal: when an attempt of any trial reads a
\* stop pair (a stop and the hub included) the matrix has no entry for,
\* merge_routes ends with the lookup error; it returns no routes and no
\* ledger, runs no further attempt or trial, and does not fall back on the
\* best state a trial had reached.
C15_MissingEntryFatal ==
    /\ (last_attempt.route_id # NoRoute /\ MustRaise(last_attempt)) => pc = "raised"
    /\ last_attempt.raised <=> pc = "raised"
    /\ pc = "raised" =>
          /\ final_routes = EmptyDict
          /\ final_route_demands = EmptyDict
          /\ final_route_stop_demands = EmptyDict
          /\ merge_log = NewLogger
          /\ ~ENABLED Next
    /\ pc = "done" => ~last_attempt.raised

\* The lookup of a stop pair failed, every hub distance being there, after a
\* trial had removed a route.
C15_Witness ==
    /\ pc = "raised"
    /\ MustRaise(last_attempt)
    /\ \A st \in Stops : Has(distance_matrix, st, college_stop)
    /\ best_solution.routes_removed > 0

\* The routes and totals of an attempt's working state before its k-th
\* insertion: the state the attempt started from with the insertions before
\* the k-th applied.
RECURSIVE StateBefore(_, _)
StateBefore(attempt, k) ==
    IF k = 1
    THEN [routes |-> attempt.routes, route_demands |-> attempt.route_demands]
    ELSE LET prev == StateBefore(attempt, k - 1)
             a == attempt.stops_assigned[k - 1]
         IN [routes |-> [prev.routes EXCEPT
                            ![a.to_route] = ListInsert(@, a.position, a.stop)],
             route_demands |-> [prev.route_demands EXCEPT
                                   ![a.to_route] = @ + a.demand]]

\* The detour of putting stop st between cur and next.
Detour(cur, st, next) ==
    distance_matrix[cur][st] + distance_matrix[st][next] - distance_matrix[cur][next]

HubDistance(st) == distance_matrix[st][college_stop]

\* C16: every insertion an attempt applies satisfies, in the working state as
\* the earlier insertions of the attempt left it: the receiving route is not
\* the candidate; its total plus the stop's demand is at most MAX_CAPACITY; the
\* stop goes directly after a stop current whose hub distance exceeds the
\* stop's by at least MIN_CLOSER_THRESHOLD; if a next stop exists, the hub
\* distances of current, the stop and next do not increase; and the detour
\* (next being the hub after the last stop) is below DISTANCE_THRESHOLD.  No
\* stop is inserted before the first stop of a route.
C16_InsertionsAdmissible ==
    \A k \in 1..Len(last_attempt.stops_assigned) :
        LET a == last_attempt.stops_assigned[k]
            before == StateBefore(last_attempt, k)
            receiving == before.routes[a.to_route]
            cur == receiving[a.position]
            last == (a.position = Len(receiving))
            next == IF last THEN college_stop ELSE receiving[a.position + 1]
        IN /\ a.to_route # last_attempt.route_id
           /\ a.to_route \in DOMAIN before.routes
           /\ before.route_demands[a.to_route] + a.demand <= MAX_CAPACITY
           /\ a.position >= 1
           /\ a.position <= Len(receiving)
           /\ HubDistance(cur) - HubDistance(a.stop) >= MIN_CLOSER_THRESHOLD
           /\ ~last => /\ HubDistance(cur) >= HubDistance(a.stop)
                       /\ HubDistance(a.stop) >= HubDistance(next)
           /\ Detour(cur, a.stop, next) < DISTANCE_THRESHOLD

\* An attempt inserted two stops into one route, the second directly after the
\* first.
C16_Witness ==
    /\ Len(last_attempt.stops_assigned) = 2
    /\ last_attempt.stops_assigned[1].to_route = last_attempt.stops_assigned[2].to_route
    /\ last_attempt.stops_assigned[2].position
          = last_attempt.stops_assigned[1].position + 1

\* The indices of the candidate's stops that have to be placed, in order.
ToPlaceIndices(attempt) ==
    SelectSeq([n \in 1..Len(Candidate(attempt)) |-> n],
              LAMBDA n : ToPlace(attempt, n))

\* The place of a route id in the mapping order.
RouteIndex(r) == CHOOSE n \in 1..Len(RouteIds) : RouteIds[n] = r

\* The stop after position i of a stop list, the hub after the last.
NextOf(stops, i) == IF i = Len(stops) THEN college_stop ELSE stops[i + 1]

\* st is closer to the hub than cur by at least the margin; by more than it.
CloserByMargin(st, cur) ==
    HubDistance(cur) - HubDistance(st) >= MIN_CLOSER_THRESHOLD

CloserBeyondMargin(st, cur) ==
    HubDistance(cur) - HubDistance(st) > MIN_CLOSER_THRESHOLD

\* The admissible (route, position) pairs for a stop st of demand dem of the
\* candidate cand in the working state ws, Closer being the closeness test.
AdmissiblePairs(Closer(_, _), ws, cand, st, dem) ==
    { pr \in (((DOMAIN ws.routes) \ {cand}) \X (1..4)) :
        /\ pr[2] <= Len(ws.routes[pr[1]])
        /\ ws.route_demands[pr[1]] + dem <= MAX_CAPACITY
        /\ LET stops == ws.routes[pr[1]]
               cur == stops[pr[2]]
               next == NextOf(stops, pr[2])
           IN /\ Closer(st, cur)
              /\ pr[2] < Len(stops) =>
                    /\ HubDistance(cur) >= HubDistance(st)
                    /\ HubDistance(st) >= HubDistance(next)
              /\ Detour(cur, st, next) < DISTANCE_THRESHOLD }

PairDetour(ws, pr, st) ==
    Detour(ws.routes[pr[1]][pr[2]], st, NextOf(ws.routes[pr[1]], pr[2]))

\* pr comes before qr in the order routes and positions are gone through.
FoundBefore(pr, qr) ==
    \/ RouteIndex(pr[1]) < RouteIndex(qr[1])
    \/ pr[1] = qr[1] /\ pr[2] <= qr[2]

\* Best fit of the last attempt under the closeness test Closer: every stop
\* that had to be placed went to the admissible pair of least detour, the
\* first found among equals, and the attempt stopped at a stop only when that
\* stop had no admissible pair.
BestFit(Closer(_, _)) ==
    (last_attempt.route_id # NoRoute /\ ~last_attempt.raised) =>
        LET idx == ToPlaceIndices(last_attempt)
            placed == last_attempt.stops_assigned
        IN /\ Len(placed) <= Len(idx)
           /\ last_attempt.all_placed <=> Len(placed) = Len(idx)
           /\ \A k \in 1..Len(placed) :
                 LET st == Candidate(last_attempt)[idx[k]]
                     ws == StateBefore(last_attempt, k)
                     adm == AdmissiblePairs(Closer, ws, last_attempt.route_id, st,
                                            DemandAt(last_attempt, idx[k]))
                     chosen == <<placed[k].to_route, placed[k].position>>
                 IN /\ placed[k].stop = st
                    /\ placed[k].demand = DemandAt(last_attempt, idx[k])
                    /\ chosen \in adm
                    /\ \A other \in adm :
                          \/ PairDetour(ws, chosen, st) < PairDetour(ws, other, st)
                          \/ /\ PairDetour(ws, chosen, st) = PairDetour(ws, other, st)
                             /\ FoundBefore(chosen, other)
           /\ ~last_attempt.all_placed =>
                 LET k == Len(placed) + 1
                 IN AdmissiblePairs(Closer, StateBefore(last_attempt, k),
                                    last_attempt.route_id,
                                    Candidate(last_attempt)[idx[k]],
                                    DemandAt(last_attempt, idx[k])) = {}

\* C17: best-fit placement: every stop that has to be placed goes to the
\* (route, position) of least detour among all admissible pairs of the surviving
\* routes, a pair being admissible when capacity allows, the stop is closer to
\* the hub than current by at least MIN_CLOSER_THRESHOLD (exactly the margin
\* qualifies), the interpolation condition holds and the detour is below
\* DISTANCE_THRESHOLD; equal detours go to the pair found first; the attempt
\* fails at a stop only if the stop has no admissible pair.
C17_BestFit == BestFit(CloserByMargin)

\* The same with a closeness test of more than the margin, as line 141 has it.
C17_BestFitBeyondMargin == BestFit(CloserBeyondMargin)

\* A stop went to the second of two routes, both of which had an admissible
\* place for it.
C17_Witness ==
    /\ last_attempt.route_id # NoRoute
    /\ Len(last_attempt.stops_assigned) > 0
    /\ LET a == last_attempt.stops_assigned[1]
           adm == AdmissiblePairs(CloserBeyondMargin, StateBefore(last_attempt, 1),
                                  last_attempt.route_id, a.stop, a.demand)
       IN \E other \in adm : RouteIndex(other[1]) < RouteIndex(a.to_route)

\* No route lists a stop twice.
StopsUnique(rts) ==
    \A r \in DOMAIN rts : \A st \in Stops : Count(rts[r], st) <= 1

\* C18: stop uniqueness: when every input route lists each stop at most once,
\* every surviving route lists each stop at most once after any sequence of
\* accepted removals, also when the eliminated route and the receiving route
\* share a stop.
C18_StopsStayUnique ==
    StopsUnique(routes) =>
        /\ StopsUnique(current_routes)
        /\ StopsUnique(best_solution.routes)
        /\ StopsUnique(final_routes)

====
